---- MODULE Spec2Model ----
(***************************************************************************)
(* Model of the printer-service case tracker (ImpresorasTecni).            *)
(*                                                                         *)
(* The persistent state is the single table "impresoras"; the server side  *)
(* is lib/database.ts plus the HTTP route handlers; the client side is the *)
(* HomePage component with its two note modals.  Text values are           *)
(* sequences of one-character (or one-word) tokens so that trim() and      *)
(* concatenation are computed, not assumed.  Timestamps are readings of a  *)
(* logical clock.  A failing backend call is an input of the action that   *)
(* makes the call.                                                         *)
(***************************************************************************)
EXTENDS Integers, Sequences, FiniteSets, TLC

(* ---------------------------------------------------------------------- *)
(* Bounds                                                                 *)
(* ---------------------------------------------------------------------- *)
MaxCasos == 2        \* rows ever inserted (ids are never reused)
MaxReloj == 3        \* status changes (each one reads a later clock value)
MaxProcs == 2        \* POST requests that can be in flight at once
MaxFichas == 1
MaxLineas == 50        \* wrapped lines of observaciones in a document
MaxLineasMotivo == 3   \* wrapped lines of motivoResolucion       \* cases followed through their status changes

Ids   == 1..MaxCasos
Procs == 1..MaxProcs

(* ---------------------------------------------------------------------- *)
(* Text                                                                   *)
(* ---------------------------------------------------------------------- *)
SP == " "
NL == "\n"
Vacio == <<>>

esEspacio(c) == c \in {SP, NL}

RECURSIVE trimStart(_)
trimStart(s) ==
  IF s = <<>> THEN <<>>
  ELSE IF esEspacio(Head(s)) THEN trimStart(Tail(s)) ELSE s

RECURSIVE trimEnd(_)
trimEnd(s) ==
  IF s = <<>> THEN <<>>
  ELSE IF esEspacio(s[Len(s)]) THEN trimEnd(SubSeq(s, 1, Len(s) - 1)) ELSE s

\* String.prototype.trim
trim(s) == trimEnd(trimStart(s))

\* x || '' for a text that may be missing from a JSON body
oVacio(cuerpo, campo) == IF campo \in DOMAIN cuerpo THEN cuerpo[campo] ELSE Vacio

\* JavaScript truthiness of an optional text field: undefined and '' are falsy
verdadero(cuerpo, campo) == campo \in DOMAIN cuerpo /\ cuerpo[campo] # Vacio

(* ---------------------------------------------------------------------- *)
(* The table (supabase_schema.sql) and lib/database.ts                    *)
(* ---------------------------------------------------------------------- *)
Nulo == 0                      \* SQL NULL of a timestamp column
EstadoCaso == {"pendiente", "en_proceso", "resuelto"}

VARIABLES
  tabla,        \* the rows of "impresoras": a function from the ids present
  reloj,        \* the clock read by new Date()
  proxId,       \* how many ids have been generated
  pc,           \* per POST request slot: "libre" or "insertar"
  nueva,        \* per slot: the arguments and numeroCaso held across the await
  resp,         \* per slot: the response of the last POST that finished
  solapado,     \* per slot: the requests that had read the maximum and not
                \*   yet inserted when this one read it
  maxLeido,     \* per slot: the maximum the lookup returned (-1: it failed)
  vaciaAlLeer,  \* per slot: whether the table was empty at the lookup
  falloIns,     \* per slot: whether the backend failed the insert
  asignados,    \* numeroCaso of every row inserted, in insertion order
  huboCarrera,  \* some POST read the maximum while another was in flight
  huboEliminacion, \* some row has been deleted
  huboFallaMax, \* some lookup of the maximum failed
  impresoras,   \* HomePage: the list the client last loaded (what it reads of it)
  impresoraEnProceso,   \* HomePage: the case of the open "en proceso" modal, 0: closed
  impresoraCerrarCaso,  \* HomePage: the case of the open close-case modal, 0: closed
  ultima,       \* the last request to /api/impresoras/[id] and its response
  formulario,   \* FormularioImpresora: whether a submit is in flight, and its error
  documento,    \* the last PDF handed to descargarPDF and the record it was made from
  errorModal,   \* per note modal: whether it shows its error message
  pdf           \* the document being laid out by lib/pdf.ts: inputs, cursor, pages

varsNum == <<pc, nueva, resp, solapado, maxLeido, vaciaAlLeer, falloIns, asignados,
             huboCarrera, huboFallaMax>>
varsUI  == <<impresoras, impresoraEnProceso, impresoraCerrarCaso>>
varsDoc == <<formulario, documento, errorModal, pdf>>

vars == <<tabla, reloj, proxId, pc, nueva, resp, solapado, maxLeido, vaciaAlLeer, falloIns,
          asignados, huboCarrera, huboEliminacion, huboFallaMax,
          impresoras, impresoraEnProceso, impresoraCerrarCaso, ultima,
          formulario, documento, errorModal, pdf>>

\* The highest numeroCaso stored, 0 on an empty table
maxNumeroCaso(t) ==
  IF DOMAIN t = {} THEN 0
  ELSE CHOOSE n \in {t[i].numeroCaso : i \in DOMAIN t} :
         \A i \in DOMAIN t : t[i].numeroCaso <= n

\* obtenerSiguienteNumeroCaso without its "+ 1 or 1": the maximum itself
obtenerSiguienteNumeroCaso_sinSumar(t, falla) ==
  IF falla THEN 1 ELSE maxNumeroCaso(t)

\* obtenerSiguienteNumeroCaso answering 0 instead of 1 when its query fails
obtenerSiguienteNumeroCaso_fallaCero(t, falla) ==
  IF falla THEN 0
  ELSE IF DOMAIN t # {} /\ maxNumeroCaso(t) # 0 THEN maxNumeroCaso(t) + 1
  ELSE 1

\* obtenerSiguienteNumeroCaso: max + 1; 1 on an empty table, on a falsy
\* maximum and on a failed query
obtenerSiguienteNumeroCaso(t, falla) ==
  IF falla THEN 1
  ELSE IF DOMAIN t # {} /\ maxNumeroCaso(t) # 0 THEN maxNumeroCaso(t) + 1
  ELSE 1

\* The object crearImpresora inserts; the columns it leaves out take the
\* defaults of the CREATE TABLE
nuevaImpresora(id, args, numeroCaso, ahora) ==
  [ id                       |-> id,
    referencia               |-> args.referencia,
    cliente                  |-> args.cliente,
    nitCC                    |-> args.nitCC,
    telefono                 |-> args.telefono,
    observaciones            |-> args.observaciones,
    fechaIngreso             |-> ahora,
    fechaEntrega             |-> Nulo,
    estado                   |-> "pendiente",
    fechaActualizacionEstado |-> Nulo,
    motivoResolucion         |-> Vacio,
    descripcionProceso       |-> Vacio,
    numeroCaso               |-> numeroCaso ]

\* An insert into a table that declares numeroCaso UNIQUE
insertar_unico(t, fila, falla) ==
  IF falla \/ \E i \in DOMAIN t : t[i].numeroCaso = fila.numeroCaso
  THEN [ok |-> FALSE, tabla |-> t]
  ELSE [ok |-> TRUE, tabla |-> (fila.id :> fila) @@ t]

\* The insert of crearImpresora: no constraint of the table looks at
\* numeroCaso, so only a backend failure rejects the row
insertar(t, fila, falla) ==
  IF falla THEN [ok |-> FALSE, tabla |-> t]
  ELSE [ok |-> TRUE, tabla |-> (fila.id :> fila) @@ t]

\* eliminarImpresora: true unless the backend reports an error; deleting an
\* id that matches no row is not an error
eliminarImpresora(t, id, falla) ==
  IF falla THEN [exito |-> FALSE, tabla |-> t]
  ELSE [exito |-> TRUE, tabla |-> [i \in DOMAIN t \ {id} |-> t[i]]]

\* leerImpresoras: the rows, and [] when the backend fails
leerImpresoras(t, falla) == IF falla THEN <<>> ELSE t

(* ---------------------------------------------------------------------- *)
(* GET /api/impresoras                                                    *)
(* ---------------------------------------------------------------------- *)
\* leerImpresoras never throws, so the handler always answers 200
GETLista(t, falla) == [status |-> 200, cuerpo |-> leerImpresoras(t, falla)]

(* ---------------------------------------------------------------------- *)
(* POST /api/impresoras                                                   *)
(* ---------------------------------------------------------------------- *)
base == [referencia |-> <<"r">>, cliente |-> <<"c">>,
         nitCC |-> <<"n">>, telefono |-> <<"t">>]

CuerposPOST ==
  { base,
    base @@ [observaciones |-> <<SP, "o", SP>>],
    [referencia |-> <<SP>>] @@ base,
    [referencia |-> Vacio] @@ base,
    [referencia |-> <<"r">>, cliente |-> <<"c">>, nitCC |-> <<"n">>] }

camposObligatorios == {"referencia", "cliente", "nitCC", "telefono"}

SinResp == [status |-> 0]
SinUltima == [via |-> "", id |-> 0, status |-> 0]
SinDocumento == [tipo |-> "ninguno"]
SinErrorModal == [enProceso |-> FALSE, cerrarCaso |-> FALSE]
SinPDF == [tipo |-> "ninguno"]
FormularioEnReposo == [estado |-> "reposo", error |-> ""]

\* The handler of POST up to its first await on the store: validation, then
\* the lookup of the maximum inside crearImpresora
manejarPOST(p, cuerpo, falla) ==
  /\ pc[p] = "libre"
  /\ IF \E c \in camposObligatorios : ~verdadero(cuerpo, c)
     THEN /\ resp' = [resp EXCEPT ![p] = [status |-> 400]]
          /\ solapado' = [q \in Procs |-> solapado[q] \ {p}]
          /\ maxLeido' = [maxLeido EXCEPT ![p] = -1]
          /\ UNCHANGED <<pc, nueva, vaciaAlLeer, huboCarrera, huboFallaMax>>
     ELSE /\ pc' = [pc EXCEPT ![p] = "insertar"]
          /\ nueva' = [nueva EXCEPT ![p] =
                 [ referencia    |-> trim(cuerpo.referencia),
                   cliente       |-> trim(cuerpo.cliente),
                   nitCC         |-> trim(cuerpo.nitCC),
                   telefono      |-> trim(cuerpo.telefono),
                   observaciones |-> trim(oVacio(cuerpo, "observaciones")),
                   numeroCaso    |-> obtenerSiguienteNumeroCaso(tabla, falla) ]]
          /\ resp' = [resp EXCEPT ![p] = SinResp]
          /\ solapado' = [q \in Procs |->
                 IF q = p THEN {r \in Procs \ {p} : pc[r] = "insertar"}
                 ELSE solapado[q] \ {p}]
          /\ maxLeido' = [maxLeido EXCEPT ![p] =
                 IF falla THEN -1 ELSE maxNumeroCaso(tabla)]
          /\ vaciaAlLeer' = [vaciaAlLeer EXCEPT ![p] = (DOMAIN tabla = {})]
          /\ huboCarrera' = (huboCarrera \/ \E r \in Procs \ {p} : pc[r] = "insertar")
          /\ huboFallaMax' = (huboFallaMax \/ falla)
  /\ falloIns' = [falloIns EXCEPT ![p] = FALSE]
  /\ UNCHANGED <<tabla, reloj, proxId, asignados, huboEliminacion, ultima>>

\* A POST sent straight to the API
POST(p, cuerpo, falla) ==
  /\ manejarPOST(p, cuerpo, falla)
  /\ UNCHANGED <<varsUI, varsDoc>>

\* crearImpresora after the lookup: build the row and insert it
crearImpresora(p, falla) ==
  /\ pc[p] = "insertar"
  /\ proxId < MaxCasos
  /\ LET fila == nuevaImpresora(proxId + 1, nueva[p], nueva[p].numeroCaso, reloj)
         r    == insertar(tabla, fila, falla)
     IN /\ tabla' = r.tabla
        /\ resp' = [resp EXCEPT ![p] =
               IF r.ok THEN [status |-> 201, fila |-> fila] ELSE [status |-> 500]]
        /\ asignados' = IF r.ok THEN Append(asignados, fila.numeroCaso) ELSE asignados
        /\ proxId' = proxId + 1
  /\ pc' = [pc EXCEPT ![p] = "libre"]
  /\ falloIns' = [falloIns EXCEPT ![p] = falla]
  /\ UNCHANGED <<reloj, nueva, solapado, maxLeido, vaciaAlLeer, huboCarrera,
                 huboEliminacion, huboFallaMax, varsUI, ultima, varsDoc>>

(* ---------------------------------------------------------------------- *)
(* DELETE /api/impresoras/[id]                                            *)
(* ---------------------------------------------------------------------- *)
\* The handler: 404 when eliminarImpresora answers false
manejarDELETE(t, id, falla) ==
  LET r == eliminarImpresora(t, id, falla)
  IN [status |-> IF r.exito THEN 200 ELSE 404, tabla |-> r.tabla]

DELETE(id, falla) ==
  /\ LET r == manejarDELETE(tabla, id, falla)
     IN /\ tabla' = r.tabla
        /\ ultima' = [via |-> "delete", id |-> id, status |-> r.status]
        /\ huboEliminacion' = (huboEliminacion \/ (r.status = 200 /\ id \in DOMAIN tabla))
  /\ UNCHANGED <<reloj, proxId, varsNum, varsUI, varsDoc>>

(* ---------------------------------------------------------------------- *)
(* lib/database.ts: updates                                               *)
(* ---------------------------------------------------------------------- *)
\* The row with the columns named in datos overwritten
fusionar(fila, datos) ==
  [c \in DOMAIN fila |-> IF c \in DOMAIN datos THEN datos[c] ELSE fila[c]]

\* actualizarImpresora: null (ok = FALSE) when the backend fails or no row
\* has the id, the updated row otherwise
actualizarImpresora(t, id, datos, falla) ==
  IF falla \/ id \notin DOMAIN t
  THEN [ok |-> FALSE, tabla |-> t]
  ELSE [ok |-> TRUE, fila |-> fusionar(t[id], datos),
        tabla |-> [t EXCEPT ![id] = fusionar(t[id], datos)]]

\* cambiarEstadoCaso's update without the date of the change
datosActualizacionEstado_sinFecha(nuevoEstado, ahora) ==
  IF nuevoEstado = "resuelto"
  THEN [estado |-> nuevoEstado, fechaEntrega |-> ahora]
  ELSE [estado |-> nuevoEstado]

\* cambiarEstadoCaso's update with a delivery date for every status
datosActualizacionEstado_siempreEntrega(nuevoEstado, ahora) ==
  [estado |-> nuevoEstado, fechaActualizacionEstado |-> ahora, fechaEntrega |-> ahora]

\* The update cambiarEstadoCaso builds
datosActualizacionEstado(nuevoEstado, ahora) ==
  IF nuevoEstado = "resuelto"
  THEN [estado |-> nuevoEstado, fechaActualizacionEstado |-> ahora,
        fechaEntrega |-> ahora]
  ELSE [estado |-> nuevoEstado, fechaActualizacionEstado |-> ahora]

\* A cambiarEstadoCaso that refuses to move a resolved case back
cambiarEstadoCaso_sinRetroceso(t, id, nuevoEstado, falla, ahora) ==
  IF id \in DOMAIN t /\ t[id].estado = "resuelto" /\ nuevoEstado # "resuelto"
  THEN [ok |-> FALSE, tabla |-> t]
  ELSE actualizarImpresora(t, id, datosActualizacionEstado(nuevoEstado, ahora), falla)

cambiarEstadoCaso(t, id, nuevoEstado, falla, ahora) ==
  actualizarImpresora(t, id, datosActualizacionEstado(nuevoEstado, ahora), falla)

\* obtenerImpresoraPorId: null when the backend fails or no row has the id
obtenerImpresoraPorId(t, id, falla) ==
  IF falla \/ id \notin DOMAIN t THEN [ok |-> FALSE] ELSE [ok |-> TRUE, fila |-> t[id]]

(* ---------------------------------------------------------------------- *)
(* PATCH /api/impresoras/[id]                                             *)
(* ---------------------------------------------------------------------- *)
\* estado && [...].includes(estado)
esCambioDeEstado(cuerpo) ==
  "estado" \in DOMAIN cuerpo /\ cuerpo.estado \in EstadoCaso


\* datosAdicionales of the status branch
datosAdicionales(cuerpo) ==
  LET presentes == DOMAIN cuerpo \cap
                     {"motivoResolucion", "descripcionProceso", "observaciones"}
  IN [c \in presentes |->
        IF c = "observaciones" THEN cuerpo[c] ELSE trim(cuerpo[c])]

\* An edit branch that passes id, fechaIngreso and numeroCaso on to the store
datosActualizacion_conProtegidos(cuerpo) ==
  LET presentes == DOMAIN cuerpo \cap
                     (camposObligatorios \cup
                      {"observaciones", "motivoResolucion", "descripcionProceso",
                       "id", "fechaIngreso", "numeroCaso"})
  IN [c \in presentes |->
        IF c \in {"id", "fechaIngreso", "numeroCaso"} THEN cuerpo[c]
        ELSE trim(cuerpo[c])]

\* datosActualizacion of the edit branch
datosActualizacion(cuerpo) ==
  LET presentes == DOMAIN cuerpo \cap
                     (camposObligatorios \cup
                      {"observaciones", "motivoResolucion", "descripcionProceso"})
  IN [c \in presentes |-> trim(cuerpo[c])]

\* The edit branch answers 400 when a required field is sent blank
campoEnBlanco(cuerpo) ==
  \E c \in camposObligatorios \cap DOMAIN cuerpo : trim(cuerpo[c]) = Vacio

\* A handler whose status change and accompanying fields are one update: a
\* failure of the second call answers 500 and leaves the table as it was
manejarPATCH_atomico(t, id, cuerpo, falla, ahora) ==
  IF ~obtenerImpresoraPorId(t, id, falla = 1).ok
  THEN [status |-> 404, tabla |-> t]
  ELSE IF esCambioDeEstado(cuerpo)
  THEN LET r1 == cambiarEstadoCaso(t, id, cuerpo.estado, falla = 2, ahora)
           r2 == actualizarImpresora(r1.tabla, id, datosAdicionales(cuerpo), falla = 3)
       IN IF ~r1.ok THEN [status |-> 500, tabla |-> t]
          ELSE IF DOMAIN datosAdicionales(cuerpo) = {}
          THEN [status |-> 200, fila |-> r1.fila, tabla |-> r1.tabla]
          ELSE IF r2.ok
          THEN [status |-> 200, fila |-> r2.fila, tabla |-> r2.tabla]
          ELSE [status |-> 500, tabla |-> t]
  ELSE IF campoEnBlanco(cuerpo)
  THEN [status |-> 400, tabla |-> t]
  ELSE LET r == actualizarImpresora(t, id, datosActualizacion(cuerpo), falla = 2)
       IN IF ~r.ok THEN [status |-> 500, tabla |-> t]
          ELSE [status |-> 200, fila |-> r.fila, tabla |-> r.tabla]

\* The handler, from the table t: falla is the store call that fails
\* (1: the lookup, 2: the first update, 3: the second update, 0: none)
manejarPATCH(t, id, cuerpo, falla, ahora) ==
  IF ~obtenerImpresoraPorId(t, id, falla = 1).ok
  THEN [status |-> 404, tabla |-> t]
  ELSE IF esCambioDeEstado(cuerpo)
  THEN LET r1 == cambiarEstadoCaso(t, id, cuerpo.estado, falla = 2, ahora)
           r2 == actualizarImpresora(r1.tabla, id, datosAdicionales(cuerpo), falla = 3)
       IN IF ~r1.ok THEN [status |-> 500, tabla |-> t]
          ELSE IF DOMAIN datosAdicionales(cuerpo) # {} /\ r2.ok
          THEN [status |-> 200, fila |-> r2.fila, tabla |-> r2.tabla]
          ELSE [status |-> 200, fila |-> r1.fila, tabla |-> r1.tabla]
  ELSE IF campoEnBlanco(cuerpo)
  THEN [status |-> 400, tabla |-> t]
  ELSE LET r == actualizarImpresora(t, id, datosActualizacion(cuerpo), falla = 2)
       IN IF ~r.ok THEN [status |-> 500, tabla |-> t]
          ELSE [status |-> 200, fila |-> r.fila, tabla |-> r.tabla]

\* What is kept of a request and its response
registro(via, id, r) == [via |-> via, id |-> id, status |-> r.status]

\* Bodies a caller of the API sends
CuerposEstado ==
  { [estado |-> e] : e \in EstadoCaso \cup {"archivado"} }
  \cup { [estado |-> "archivado", observaciones |-> <<"x">>] }
  \cup { [estado |-> "en_proceso", descripcionProceso |-> <<SP, "d", SP>>],
         [estado |-> "en_proceso", observaciones |-> <<"x">>],
         [estado |-> "resuelto", motivoResolucion |-> <<SP, "m", SP>>],
         [estado |-> "resuelto", motivoResolucion |-> <<SP>>] }

CuerposEdicion ==
  { [observaciones |-> <<SP, "e", SP>>],
    [id |-> 9, fechaIngreso |-> 9, numeroCaso |-> 9, fechaEntrega |-> 9,
     cliente |-> <<"k">>],
    [referencia |-> <<SP>>],
    base @@ [observaciones |-> Vacio] }

CuerposPATCH == CuerposEstado \cup CuerposEdicion

Fallas == 0..3

\* A PATCH sent straight to the API
PATCH(id, cuerpo, falla) ==
  /\ esCambioDeEstado(cuerpo) => reloj < MaxReloj
  /\ LET r == manejarPATCH(tabla, id, cuerpo, falla, reloj + 1)
     IN /\ tabla' = r.tabla
        /\ ultima' = registro("api", id, r)
  /\ reloj' = IF esCambioDeEstado(cuerpo) /\ id \in DOMAIN tabla /\ falla # 1
              THEN reloj + 1 ELSE reloj
  /\ UNCHANGED <<proxId, varsNum, huboEliminacion, varsUI, varsDoc>>

(* ---------------------------------------------------------------------- *)
(* HomePage                                                               *)
(* ---------------------------------------------------------------------- *)
\* What the page reads of a loaded row
vista(fila) == [observaciones |-> fila.observaciones, estado |-> fila.estado]

FallasLista == {"no", "bd", "red"}

\* cargarImpresoras: leerImpresoras answers [] when the backend fails ("bd");
\* a failed fetch ("red") leaves the list as it was
listaCargada(t, lista, falla) ==
  IF falla = "red" THEN lista
  ELSE LET respuesta == GETLista(t, falla = "bd")
       IN [i \in DOMAIN respuesta.cuerpo |-> vista(respuesta.cuerpo[i])]

cargarImpresoras(falla) ==
  /\ impresoras' = listaCargada(tabla, impresoras, falla)
  /\ UNCHANGED <<tabla, reloj, proxId, varsNum, huboEliminacion,
                 impresoraEnProceso, impresoraCerrarCaso, ultima, varsDoc>>

\* manejarCambiarEstado, called by the status dropdown of a listed row
manejarCambiarEstado(id, nuevoEstado, falla, fallaLista) ==
  /\ id \in DOMAIN impresoras
  /\ IF nuevoEstado = "en_proceso"
     THEN /\ impresoraEnProceso' = id
          /\ UNCHANGED <<tabla, reloj, impresoras, ultima>>
     ELSE /\ reloj < MaxReloj
          /\ LET r == manejarPATCH(tabla, id, [estado |-> nuevoEstado], falla, reloj + 1)
             IN /\ tabla' = r.tabla
                /\ ultima' = registro("desplegable", id, r)
                /\ impresoras' = IF r.status = 200
                                 THEN listaCargada(r.tabla, impresoras, fallaLista)
                                 ELSE impresoras
          /\ reloj' = IF id \in DOMAIN tabla /\ falla # 1 THEN reloj + 1 ELSE reloj
          /\ UNCHANGED impresoraEnProceso
  /\ UNCHANGED <<proxId, varsNum, huboEliminacion, impresoraCerrarCaso, varsDoc>>

\* toLocaleDateString('es-CO', ...) of a clock reading
formatearFecha(t) == ToString(t)

\* The entry manejarConfirmarEnProceso appends
entradaEnProceso(t, descripcionProceso) ==
  <<"[", formatearFecha(t), "]", SP, "En Proceso:", SP>> \o descripcionProceso

nuevaObservacion(observacionesExistentes, t, descripcionProceso) ==
  IF observacionesExistentes # Vacio /\ trim(observacionesExistentes) # Vacio
  THEN trim(observacionesExistentes) \o <<NL, NL>>
         \o entradaEnProceso(t, descripcionProceso)
  ELSE entradaEnProceso(t, descripcionProceso)

\* The notes the handler starts from: the local copy of the row, or, when the
\* list does not hold it, the row fetched with GET ('' when that fails)
observacionesExistentes(t, lista, id, fallaGet) ==
  IF id \in DOMAIN lista THEN lista[id].observaciones
  ELSE IF obtenerImpresoraPorId(t, id, fallaGet).ok THEN t[id].observaciones
  ELSE Vacio

cuerpoEnProceso(t, lista, id, fallaGet, ahora, descripcionProceso) ==
  [estado |-> "en_proceso",
   observaciones |-> nuevaObservacion(observacionesExistentes(t, lista, id, fallaGet),
                                      ahora, descripcionProceso)]

manejarConfirmarEnProceso(descripcionProceso, fallaGet, falla, fallaLista) ==
  /\ impresoraEnProceso # 0
  /\ reloj < MaxReloj
  /\ LET id == impresoraEnProceso
         cuerpo == cuerpoEnProceso(tabla, impresoras, id, fallaGet, reloj,
                                   descripcionProceso)
         r == manejarPATCH(tabla, id, cuerpo, falla, reloj + 1)
     IN /\ tabla' = r.tabla
        /\ ultima' = registro("modalEnProceso", id, r)
        /\ impresoras' = IF r.status = 200
                         THEN listaCargada(r.tabla, impresoras, fallaLista)
                         ELSE impresoras
        /\ impresoraEnProceso' = IF r.status = 200 THEN 0 ELSE impresoraEnProceso
        /\ reloj' = IF id \in DOMAIN tabla /\ falla # 1 THEN reloj + 1 ELSE reloj
  /\ UNCHANGED <<proxId, varsNum, huboEliminacion, impresoraCerrarCaso,
                 formulario, documento, pdf>>

\* manejarAbrirCerrarCaso: the button is shown on rows listed as 'resuelto'
manejarAbrirCerrarCaso(id) ==
  /\ id \in DOMAIN impresoras
  /\ impresoras[id].estado = "resuelto"
  /\ impresoraCerrarCaso' = id
  /\ UNCHANGED <<tabla, reloj, proxId, varsNum, huboEliminacion, impresoras,
                 impresoraEnProceso, ultima, varsDoc>>

\* The record a response carries goes to generarPDFEntrega and the PDF to
\* descargarPDF
certificadoEntrega(fila) == [tipo |-> "entrega", fila |-> fila]

manejarConfirmarCerrarCaso(motivoResolucion, falla, fallaLista) ==
  /\ impresoraCerrarCaso # 0
  /\ reloj < MaxReloj
  /\ LET id == impresoraCerrarCaso
         cuerpo == [estado |-> "resuelto", motivoResolucion |-> motivoResolucion]
         r == manejarPATCH(tabla, id, cuerpo, falla, reloj + 1)
     IN /\ tabla' = r.tabla
        /\ ultima' = registro("modalCerrarCaso", id, r)
        /\ impresoras' = IF r.status = 200
                         THEN listaCargada(r.tabla, impresoras, fallaLista)
                         ELSE impresoras
        /\ documento' = IF r.status = 200 THEN certificadoEntrega(r.fila) ELSE documento
        /\ impresoraCerrarCaso' = IF r.status = 200 THEN 0 ELSE impresoraCerrarCaso
        /\ reloj' = IF id \in DOMAIN tabla /\ falla # 1 THEN reloj + 1 ELSE reloj
  /\ UNCHANGED <<proxId, varsNum, huboEliminacion, impresoraEnProceso, formulario, pdf>>

(* ---------------------------------------------------------------------- *)
(* The note modals (ModalCerrarCaso.tsx)                                  *)
(* ---------------------------------------------------------------------- *)
TextosNota == {Vacio, <<SP>>, <<SP, "n", SP>>}

\* What a confirm with a blank text does: it sets the modal's error message
\* and returns
soloErrorModal(modal) ==
  /\ errorModal' = [errorModal EXCEPT ![modal] = TRUE]
  /\ UNCHANGED <<tabla, reloj, proxId, varsNum, huboEliminacion, varsUI, ultima,
                 formulario, documento, pdf>>

\* A ModalEnProceso that confirms whatever the text is
ModalEnProcesoConfirmar_sinValidar(texto, fallaGet, falla, fallaLista) ==
  /\ impresoraEnProceso # 0
  /\ manejarConfirmarEnProceso(trim(texto), fallaGet, falla, fallaLista)
  /\ errorModal' = [errorModal EXCEPT !["enProceso"] = FALSE]

\* ModalEnProceso.manejarConfirmar: a blank text only sets the error message;
\* otherwise onConfirmar gets the trimmed text and the error is cleared
ModalEnProcesoConfirmar(texto, fallaGet, falla, fallaLista) ==
  /\ impresoraEnProceso # 0
  /\ IF trim(texto) = Vacio
     THEN soloErrorModal("enProceso")
     ELSE /\ manejarConfirmarEnProceso(trim(texto), fallaGet, falla, fallaLista)
          /\ errorModal' = [errorModal EXCEPT !["enProceso"] = FALSE]

\* onCerrar of ModalEnProceso (Cancel, Escape); a closed modal clears its error
ModalEnProcesoCerrar ==
  /\ impresoraEnProceso # 0
  /\ impresoraEnProceso' = 0
  /\ errorModal' = [errorModal EXCEPT !["enProceso"] = FALSE]
  /\ UNCHANGED <<tabla, reloj, proxId, varsNum, huboEliminacion, impresoras,
                 impresoraCerrarCaso, ultima, formulario, documento, pdf>>

\* ModalCerrarCaso.manejarConfirmar
ModalCerrarCasoConfirmar(texto, falla, fallaLista) ==
  /\ impresoraCerrarCaso # 0
  /\ IF trim(texto) = Vacio
     THEN soloErrorModal("cerrarCaso")
     ELSE /\ manejarConfirmarCerrarCaso(trim(texto), falla, fallaLista)
          /\ errorModal' = [errorModal EXCEPT !["cerrarCaso"] = FALSE]

ModalCerrarCasoCerrar ==
  /\ impresoraCerrarCaso # 0
  /\ impresoraCerrarCaso' = 0
  /\ errorModal' = [errorModal EXCEPT !["cerrarCaso"] = FALSE]
  /\ UNCHANGED <<tabla, reloj, proxId, varsNum, huboEliminacion, impresoras,
                 impresoraEnProceso, ultima, formulario, documento, pdf>>

(* ---------------------------------------------------------------------- *)
(* FormularioImpresora: the create flow                                   *)
(* ---------------------------------------------------------------------- *)
\* What the user has typed into the five inputs
CamposFormulario ==
  { base @@ [observaciones |-> Vacio],
    [referencia |-> <<SP, "r", SP>>] @@ base @@ [observaciones |-> <<SP, "o">>],
    [referencia |-> <<SP>>] @@ base @@ [observaciones |-> Vacio] }

camposIncompletos(campos) ==
  \E c \in camposObligatorios : trim(campos[c]) = Vacio

\* The body manejarSubmit sends: every input trimmed
cuerpoFormulario(campos) == [c \in DOMAIN campos |-> trim(campos[c])]

\* The record a 201 carries goes to generarPDFRegistro and the PDF to
\* descargarPDF
reciboRegistro(fila) == [tipo |-> "registro", fila |-> fila]

\* manejarSubmit of a new case, up to the await of its fetch: a blank required
\* input only sets the error; the submit button is disabled while a request
\* is in flight.  The page's request uses slot 1.
manejarSubmit(campos, falla) ==
  /\ formulario.estado = "reposo"
  /\ pc[1] = "libre"
  /\ IF camposIncompletos(campos)
     THEN /\ formulario' = [estado |-> "reposo", error |-> "incompleto"]
          /\ UNCHANGED <<tabla, reloj, proxId, varsNum, huboEliminacion, ultima>>
     ELSE /\ manejarPOST(1, cuerpoFormulario(campos), falla)
          /\ formulario' = [estado |-> "enviando", error |-> ""]
  /\ UNCHANGED <<varsUI, documento, errorModal, pdf>>

\* A form that makes the receipt from what it sent, whatever the response
manejarSubmitRespuesta_sinComprobar(fallaLista) ==
  /\ formulario.estado = "enviando"
  /\ pc[1] = "libre"
  /\ documento' = reciboRegistro(
         IF resp[1].status = 201 THEN resp[1].fila
         ELSE nuevaImpresora(proxId, nueva[1], nueva[1].numeroCaso, reloj))
  /\ impresoras' = listaCargada(tabla, impresoras, fallaLista)
  /\ formulario' = FormularioEnReposo
  /\ UNCHANGED <<tabla, reloj, proxId, varsNum, huboEliminacion,
                 impresoraEnProceso, impresoraCerrarCaso, ultima, errorModal, pdf>>

\* manejarSubmit once the response is there: anything but a 2xx is thrown and
\* shown as the error; a 201 yields the receipt, then the list is reloaded
manejarSubmitRespuesta(fallaLista) ==
  /\ formulario.estado = "enviando"
  /\ pc[1] = "libre"
  /\ IF resp[1].status = 201
     THEN /\ documento' = reciboRegistro(resp[1].fila)
          /\ impresoras' = listaCargada(tabla, impresoras, fallaLista)
          /\ formulario' = FormularioEnReposo
     ELSE /\ formulario' = [estado |-> "reposo", error |-> "servidor"]
          /\ UNCHANGED <<documento, impresoras>>
  /\ UNCHANGED <<tabla, reloj, proxId, varsNum, huboEliminacion,
                 impresoraEnProceso, impresoraCerrarCaso, ultima, errorModal, pdf>>

(* ---------------------------------------------------------------------- *)
(* lib/pdf.ts: layout of the two documents.  Lengths are millimetres, the  *)
(* unit of new jsPDF(); a text is the number of lines splitTextToSize      *)
(* wraps it into                                                           *)
(* ---------------------------------------------------------------------- *)
pageHeight == 297      \* doc.internal.pageSize.getHeight() of the default A4 page
margin == 20
logoHeight == 20
firmaHeight == 35

\* A verificarYPaginar that also breaks the page when the block fits exactly
verificarYPaginar_mayorIgual(yPos, espacioNecesario, alto, margen) ==
  IF yPos + espacioNecesario >= alto - margen
  THEN [yPos |-> margen, nuevaPagina |-> TRUE]
  ELSE [yPos |-> yPos, nuevaPagina |-> FALSE]

\* verificarYPaginar: the cursor it returns and whether it called doc.addPage()
verificarYPaginar(yPos, espacioNecesario, alto, margen) ==
  IF yPos + espacioNecesario > alto - margen
  THEN [yPos |-> margen, nuevaPagina |-> TRUE]
  ELSE [yPos |-> yPos, nuevaPagina |-> FALSE]

\* new jsPDF() and let yPos = margin
nuevoDocumento ==
  [yPos |-> margin, paginas |-> 1, dibujos |-> <<>>, llamadas |-> {},
   excepcion |-> FALSE]

\* yPos = verificarYPaginar(doc, yPos, espacio, pageHeight, margin); the call
\* is kept with what it answered
paginar(d, espacio) ==
  LET r == verificarYPaginar(d.yPos, espacio, pageHeight, margin)
  IN [d EXCEPT !.yPos = r.yPos,
               !.paginas = IF r.nuevaPagina THEN @ + 1 ELSE @,
               !.llamadas = @ \cup {[yPos |-> d.yPos, espacio |-> espacio,
                                      resultado |-> r.yPos,
                                      nueva |-> r.nuevaPagina]}]

\* doc.text, doc.line, doc.rect, doc.addImage at yPos + dy on the current
\* page; alto is the height of a rectangle or image, 0 for a text or a rule
dibujar(d, el, dy, alto) ==
  [d EXCEPT !.dibujos = Append(@, [el |-> el, pagina |-> d.paginas,
                                   y |-> d.yPos + dy,
                                   hasta |-> d.yPos + dy + alto])]

\* yPos += dy
avanzar(d, dy) == [d EXCEPT !.yPos = @ + dy]

\* forEach over n rows or lines: page check, draw, advance; an exception
\* would end the loop
RECURSIVE lineas(_, _, _, _)
lineas(d, el, n, paso) ==
  IF n = 0 THEN d
  ELSE LET d1 == avanzar(dibujar(paginar(d, paso), el, 0, 0), paso)
       IN IF d1.excepcion THEN d1 ELSE lineas(d1, el, n - 1, paso)

\* How loading /logo.png ends: loaded and embedded, fetch rejected, the
\* FileReader failed, or addImage rejected what was read
ResultadosLogo == {"ok", "fetch", "lectura", "incrustar"}

\* cargarImagenBase64: null when fetch throws or the reader fails
cargarImagenBase64(logo) ==
  IF logo \in {"fetch", "lectura"} THEN [nulo |-> TRUE]
  ELSE [nulo |-> FALSE, valida |-> (logo = "ok")]

\* An agregarLogo without its try/catch: addImage's exception escapes
agregarLogo_sinCatch(d, logo) ==
  LET logoBase64 == cargarImagenBase64(logo)
  IN IF logoBase64.nulo THEN d
     ELSE IF logoBase64.valida THEN dibujar(d, "logo", 0, logoHeight)
     ELSE [d EXCEPT !.excepcion = TRUE]

\* agregarLogo: draws the image when there is one; whatever addImage throws
\* is caught and logged
agregarLogo(d, logo) ==
  LET logoBase64 == cargarImagenBase64(logo)
  IN IF logoBase64.nulo THEN d
     ELSE IF logoBase64.valida THEN dibujar(d, "logo", 0, logoHeight)
     ELSE d

\* Title, case number and separator, below the space kept for the logo
encabezado(d) ==
  LET d1 == avanzar(d, logoHeight + 10)
      d2 == avanzar(dibujar(d1, "titulo", 0, 0), 10)
      d3 == avanzar(dibujar(d2, "numeroCaso", 0, 0), 8)
  IN avanzar(dibujar(d3, "separador", 0, 0), 10)

\* The Observaciones block, drawn when the text is not blank (n > 0 lines);
\* despues is the space left below it
bloqueObservaciones(d, n, despues) ==
  IF n = 0 THEN d
  ELSE LET d1 == avanzar(paginar(d, 20), 5)
           d2 == avanzar(dibujar(d1, "Observaciones:", 0, 0), 6)
       IN avanzar(lineas(d2, "observacion", n, 6), despues)

\* A heading and the n lines of its paragraph (entrega); antes is the space
\* above the heading, despues the space below the paragraph
bloqueTexto(d, titulo, el, n, antes, despues) ==
  LET d1 == avanzar(paginar(d, 30), antes)
      d2 == avanzar(dibujar(d1, titulo, 0, 0), 8)
  IN avanzar(lineas(d2, el, n, 5), despues)

\* The signature rule and its caption; antes is the space above the rule
lineaFirma(d, antes) ==
  LET d1 == avanzar(paginar(d, 80), antes)
      d2 == avanzar(dibujar(d1, "lineaFirma", 0, 0), 20)
  IN avanzar(dibujar(d2, "FIRMA DEL CLIENTE", 0, 0), 15)

\* The signature box and the client-name and date lines below it
areaFirma(d) ==
  LET d1 == paginar(d, 50)
      d2 == avanzar(dibujar(d1, "rectFirma", 0, firmaHeight), firmaHeight + 10)
      d3 == dibujar(dibujar(d2, "Nombre del cliente:", 0, 0), "cliente", 6, 0)
      d4 == avanzar(d3, 12)
      d5 == dibujar(dibujar(d4, "Fecha:", 0, 0), "fecha", 6, 0)
  IN avanzar(d5, 15)

\* The contact footer
contacto(d) ==
  LET d1 == paginar(d, 20)
      d2 == avanzar(dibujar(d1, "lineaContacto", 0, 0), 10)
  IN dibujar(d2, "contacto", 0, 0)

\* generarPDFRegistro: a rejected await agregarLogo would reject the whole
\* function
generarPDFRegistro(entradas) ==
  LET d0 == agregarLogo(nuevoDocumento, entradas.logo)
      d1 == lineas(encabezado(d0), "dato", 5, 8)
      d2 == bloqueObservaciones(d1, entradas.observaciones, 5)
      d3 == areaFirma(lineaFirma(d2, 10))
  IN [tipo |-> "registro", entradas |-> entradas]
       @@ (IF d0.excepcion THEN d0 ELSE contacto(d3))

\* generarPDFEntrega
generarPDFEntrega(entradas) ==
  LET d0 == agregarLogo(nuevoDocumento, entradas.logo)
      d1 == lineas(encabezado(d0), "dato", 6, 8)
      d2 == bloqueObservaciones(d1, entradas.observaciones, 10)
      d3 == bloqueTexto(d2, "CONFIRMACION DE RECEPCION", "confirmacion",
                        entradas.confirmacion, 5, 10)
      d4 == bloqueTexto(d3, "DECLARACION DE GARANTIA", "garantia",
                        entradas.garantia, 0, 15)
      d5 == IF entradas.motivo = 0 THEN d4
            ELSE bloqueTexto(d4, "MOTIVO DE RESOLUCION", "motivo",
                             entradas.motivo, 5, 10)
      d6 == areaFirma(lineaFirma(d5, 0))
  IN [tipo |-> "entrega", entradas |-> entradas]
       @@ (IF d0.excepcion THEN d0 ELSE contacto(d6))

\* Lines the fixed paragraphs wrap into, depending on the names they quote
LineasConfirmacion == {2, 3}
LineasGarantia == {3, 4, 5}

EntradasRegistro ==
  [logo : ResultadosLogo, observaciones : 0..MaxLineas]

EntradasEntrega ==
  [logo : ResultadosLogo, observaciones : 0..MaxLineas,
   motivo : 0..MaxLineasMotivo, confirmacion : LineasConfirmacion,
   garantia : LineasGarantia]

\* A call of generarPDFRegistro, as the form makes after a create
PDFRegistro(entradas) ==
  /\ pdf = SinPDF
  /\ pdf' = generarPDFRegistro(entradas)
  /\ UNCHANGED <<tabla, reloj, proxId, varsNum, huboEliminacion, varsUI, ultima,
                 formulario, documento, errorModal>>

\* A call of generarPDFEntrega, as the page makes after closing a case
PDFEntrega(entradas) ==
  /\ pdf = SinPDF
  /\ pdf' = generarPDFEntrega(entradas)
  /\ UNCHANGED <<tabla, reloj, proxId, varsNum, huboEliminacion, varsUI, ultima,
                 formulario, documento, errorModal>>

(* ---------------------------------------------------------------------- *)
(* Specification                                                          *)
(* ---------------------------------------------------------------------- *)
SinArgs == [referencia |-> Vacio, cliente |-> Vacio, nitCC |-> Vacio,
            telefono |-> Vacio, observaciones |-> Vacio, numeroCaso |-> 0]

Init ==
  /\ tabla = <<>>
  /\ reloj = 1
  /\ proxId = 0
  /\ pc = [p \in Procs |-> "libre"]
  /\ nueva = [p \in Procs |-> SinArgs]
  /\ resp = [p \in Procs |-> SinResp]
  /\ solapado = [p \in Procs |-> {}]
  /\ maxLeido = [p \in Procs |-> -1]
  /\ vaciaAlLeer = [p \in Procs |-> FALSE]
  /\ falloIns = [p \in Procs |-> FALSE]
  /\ asignados = <<>>
  /\ huboCarrera = FALSE
  /\ huboEliminacion = FALSE
  /\ huboFallaMax = FALSE
  /\ impresoras = <<>>
  /\ impresoraEnProceso = 0
  /\ impresoraCerrarCaso = 0
  /\ ultima = SinUltima
  /\ formulario = FormularioEnReposo
  /\ documento = SinDocumento
  /\ errorModal = SinErrorModal
  /\ pdf = SinPDF

\* Case numbering: concurrent creators and deletions
CuerposNumeracion == {base, [referencia |-> <<"r">>, cliente |-> <<"c">>, nitCC |-> <<"n">>]}

NextNumeracion ==
  \/ \E p \in Procs, c \in CuerposNumeracion, f \in BOOLEAN : POST(p, c, f)
  \/ \E p \in Procs, f \in BOOLEAN : crearImpresora(p, f)
  \/ \E id \in Ids, f \in BOOLEAN : DELETE(id, f)

SpecNumeracion == Init /\ [][NextNumeracion]_vars

\* The HTTP API of one case after another: one creator and the callers of
\* PATCH and DELETE
CuerposCreacion == {base, base @@ [observaciones |-> <<SP, "o", SP>>]}

NextAPI ==
  \/ \E c \in CuerposPOST : proxId < MaxFichas /\ POST(1, c, FALSE)
  \/ crearImpresora(1, FALSE)
  \/ \E id \in Ids : DELETE(id, FALSE)
  \/ \E id \in Ids, c \in CuerposPATCH, f \in Fallas : PATCH(id, c, f)

SpecAPI == Init /\ [][NextAPI]_vars

\* The page: one creator, the page's handlers and modals, and another
\* client editing the notes through the API
NextPagina ==
  \/ \E c \in CuerposCreacion : proxId < MaxFichas /\ POST(1, c, FALSE)
  \/ crearImpresora(1, FALSE)
  \/ \E id \in Ids : PATCH(id, [observaciones |-> <<SP, "e", SP>>], 0)
  \/ \E f \in FallasLista : cargarImpresoras(f)
  \/ \E id \in Ids, e \in EstadoCaso, f \in Fallas, fl \in FallasLista :
        manejarCambiarEstado(id, e, f, fl)
  \/ \E x \in TextosNota, fg \in BOOLEAN, f \in Fallas, fl \in FallasLista :
        ModalEnProcesoConfirmar(x, fg, f, fl)
  \/ ModalEnProcesoCerrar
  \/ \E id \in Ids : manejarAbrirCerrarCaso(id)
  \/ \E x \in TextosNota, f \in Fallas, fl \in FallasLista :
        ModalCerrarCasoConfirmar(x, f, fl)
  \/ ModalCerrarCasoCerrar

SpecPagina == Init /\ [][NextPagina]_vars

\* The create flow of the page's form, next to another client that creates
\* and deletes through the API
NextFormulario ==
  \/ \E c \in CamposFormulario, f \in BOOLEAN : manejarSubmit(c, f)
  \/ \E p \in Procs, f \in BOOLEAN : crearImpresora(p, f)
  \/ \E fl \in FallasLista : manejarSubmitRespuesta(fl)
  \/ \E c \in CuerposNumeracion, f \in BOOLEAN : POST(2, c, f)
  \/ \E id \in Ids : DELETE(id, FALSE)

SpecFormulario == Init /\ [][NextFormulario]_vars

\* The PDF composer: a document, for every outcome of the logo and every
\* number of wrapped lines (each call starts from new jsPDF() and depends on
\* no earlier one)
NextPDF ==
  \/ \E e \in EntradasRegistro : PDFRegistro(e)
  \/ \E e \in EntradasEntrega : PDFEntrega(e)

SpecPDF == Init /\ [][NextPDF]_vars

(* ---------------------------------------------------------------------- *)
(* Case numbering (spec 3, 4.1, 8)                                        *)
(* ---------------------------------------------------------------------- *)
estrictamenteCreciente(s) == \A i \in 1..(Len(s) - 1) : s[i] < s[i + 1]

\* C1: creates executed one at a time, with no deletion, are given pairwise
\* distinct numeroCaso values, each greater than the one before.
C1_CreacionesSecuencialesCrecientes ==
  (~huboCarrera /\ ~huboEliminacion) => estrictamenteCreciente(asignados)

\* C2: after any sequence of creates and deletes a new case is numbered above
\* every numeroCaso assigned before, so no number is reused.  Stated for the
\* runs with one creator at a time and no failed lookup, where only the
\* deletions are left to break it.
C2_NumeroNuncaReutilizado ==
  (~huboCarrera /\ ~huboFallaMax) => estrictamenteCreciente(asignados)

\* Two finished requests of which p looked the maximum up while q had looked
\* it up and not yet inserted, both having read the same maximum
leyeronElMismoMaximo(p, q) ==
  /\ q \in solapado[p]
  /\ pc[p] = "libre" /\ pc[q] = "libre"
  /\ maxLeido[p] # -1 /\ maxLeido[p] = maxLeido[q]

\* C3: two creates that both read the current maximum before either inserts
\* are both stored, with the same numeroCaso (whenever the backend itself
\* does not fail their inserts).
C3_CarreraMismoNumero ==
  \A p \in Procs, q \in Procs :
    (leyeronElMismoMaximo(p, q) /\ ~falloIns[p] /\ ~falloIns[q]) =>
      /\ resp[p].status = 201 /\ resp[q].status = 201
      /\ resp[p].fila.numeroCaso = resp[q].fila.numeroCaso
      /\ \A r \in {p, q} :
           resp[r].fila.id \in DOMAIN tabla =>
             tabla[resp[r].fila.id].numeroCaso = resp[p].fila.numeroCaso

C3_Testigo ==
  \E p \in Procs, q \in Procs :
    /\ p # q /\ leyeronElMismoMaximo(p, q)
    /\ resp[p].status = 201 /\ resp[q].status = 201
    /\ {resp[p].fila.id, resp[q].fila.id} \subseteq DOMAIN tabla
    /\ tabla[resp[p].fila.id].numeroCaso = tabla[resp[q].fila.id].numeroCaso

\* C4: a case created on an empty store has numeroCaso 1, and every newly
\* created case has estado 'pendiente' and no fechaEntrega.
C4_CasoNuevo ==
  \A p \in Procs :
    resp[p].status = 201 =>
      /\ resp[p].fila.estado = "pendiente"
      /\ resp[p].fila.fechaEntrega = Nulo
      /\ vaciaAlLeer[p] => resp[p].fila.numeroCaso = 1

C4_Testigo ==
  \E p \in Procs :
    /\ resp[p].status = 201 /\ vaciaAlLeer[p]
    /\ resp[p].fila.id \in DOMAIN tabla
    /\ tabla[resp[p].fila.id] = resp[p].fila
    /\ resp[p].fila.numeroCaso = 1

(* ---------------------------------------------------------------------- *)
(* Status changes (spec 4.2, 8)                                           *)
(* ---------------------------------------------------------------------- *)
\* A body that asks for 'en_proceso' and carries no text for the note
sinNotaDeProceso(c) ==
  /\ esCambioDeEstado(c) /\ c.estado = "en_proceso"
  /\ trim(oVacio(c, "descripcionProceso")) = Vacio
  /\ trim(oVacio(c, "observaciones")) = Vacio

\* C5: a change to 'en_proceso' that carries no (or an empty) process note is
\* rejected and leaves estado as it was, whoever calls PATCH.
C5_EnProcesoSinNotaRechazado ==
  [][\A id \in Ids, c \in CuerposPATCH, f \in Fallas :
       (sinNotaDeProceso(c) /\ id \in DOMAIN tabla /\ PATCH(id, c, f)) =>
         (ultima'.status # 200 /\ tabla'[id].estado = tabla[id].estado)]_vars

\* C6: a change to 'resuelto' that carries no resolution note is rejected with
\* a validation error and leaves the case unchanged, on the dropdown path too
\* (manejarCambiarEstado sends estado alone).  Stated for the requests during
\* which no backend call fails.
C6_ResueltoSinMotivoRechazado ==
  [][\A id \in Ids, fl \in FallasLista :
       (id \in DOMAIN tabla /\ manejarCambiarEstado(id, "resuelto", 0, fl)) =>
         (ultima'.status = 400 /\ tabla'[id] = tabla[id])]_vars

\* A body that asks for 'resuelto'
pideResuelto(c) == esCambioDeEstado(c) /\ c.estado = "resuelto"

\* C7: a change to 'resuelto' sets fechaEntrega to the current time when the
\* case has none and leaves it untouched when it is already set.
C7_FechaEntregaSoloSiAusente ==
  [][\A id \in Ids, c \in CuerposPATCH, f \in Fallas :
       (pideResuelto(c) /\ id \in DOMAIN tabla /\ PATCH(id, c, f)
          /\ ultima'.status = 200) =>
         tabla'[id].fechaEntrega =
           IF tabla[id].fechaEntrega = Nulo THEN reloj'
           ELSE tabla[id].fechaEntrega]_vars

\* C8: after a successful transition to 'en_proceso' with note N through the
\* page (the modal, manejarConfirmarEnProceso, PATCH), descripcionProceso
\* holds N.
C8_DescripcionProcesoGuardada ==
  [][\A x \in TextosNota, fg \in BOOLEAN, f \in Fallas, fl \in FallasLista :
       (impresoraEnProceso \in DOMAIN tabla
          /\ trim(x) # Vacio
          /\ ModalEnProcesoConfirmar(x, fg, f, fl) /\ ultima'.status = 200) =>
         tabla'[impresoraEnProceso].descripcionProceso = trim(x)]_vars

\* O followed by a blank line and an entry '[<timestamp>] En Proceso: N', the
\* entry alone when O is empty
observacionesConEntrada(o, n) ==
  { (IF o = Vacio THEN Vacio ELSE o \o <<NL, NL>>) \o entradaEnProceso(t, n) :
      t \in 0..(MaxReloj + 1) }

\* C9: after a successful transition to 'en_proceso' with note N on a case
\* whose stored observaciones is O, the stored observaciones is O, a blank
\* line and the new entry.  Stated for the requests during which no backend
\* call fails.
C9_ObservacionesPreservadas ==
  [][\A x \in TextosNota, fl \in FallasLista :
       (impresoraEnProceso \in DOMAIN tabla
          /\ trim(x) # Vacio
          /\ ModalEnProcesoConfirmar(x, FALSE, 0, fl) /\ ultima'.status = 200) =>
         tabla'[impresoraEnProceso].observaciones \in
           observacionesConEntrada(tabla[impresoraEnProceso].observaciones, trim(x))]_vars

\* C10: after a successful transition to 'resuelto' with resolution note R,
\* motivoResolucion is R and observaciones is as it was.
C10_MotivoGuardadoNotasIntactas ==
  [][\A x \in TextosNota, f \in Fallas, fl \in FallasLista :
       (impresoraCerrarCaso \in DOMAIN tabla
          /\ trim(x) # Vacio
          /\ ModalCerrarCasoConfirmar(x, f, fl) /\ ultima'.status = 200) =>
         /\ tabla'[impresoraCerrarCaso].motivoResolucion = trim(x)
         /\ tabla'[impresoraCerrarCaso].observaciones =
              tabla[impresoraCerrarCaso].observaciones]_vars

\* C11: every successful status change, to any of the three states and from
\* any state, sets fechaActualizacionEstado to the time of the change, and in
\* no step does estado change without fechaActualizacionEstado taking the
\* time of that step.
C11_FechaActualizacionEnCadaCambio ==
  [][/\ \A id \in Ids, c \in CuerposPATCH, f \in Fallas :
          (esCambioDeEstado(c) /\ PATCH(id, c, f) /\ ultima'.status = 200) =>
            /\ tabla'[id].estado = c.estado
            /\ reloj' = reloj + 1
            /\ tabla'[id].fechaActualizacionEstado = reloj'
     /\ \A id \in DOMAIN tabla \cap DOMAIN tabla' :
          tabla'[id].estado # tabla[id].estado =>
            /\ reloj' = reloj + 1
            /\ tabla'[id].fechaActualizacionEstado = reloj']_vars

C11_Testigo ==
  \E id \in DOMAIN tabla :
    /\ ultima = [via |-> "api", id |-> id, status |-> 200]
    /\ tabla[id].estado = "en_proceso"
    /\ tabla[id].fechaActualizacionEstado = reloj
    /\ tabla[id].fechaIngreso < reloj

(* ---------------------------------------------------------------------- *)
(* Validation and protected fields (spec 4.2, 4.4, 8)                     *)
(* ---------------------------------------------------------------------- *)
\* A body whose estado is none of the three states
estadoInvalido(c) == "estado" \in DOMAIN c /\ c.estado \notin EstadoCaso

\* C12: a request whose estado is outside the three states is answered 400
\* and changes no field of the case.  Stated for the requests during which no
\* backend call fails.
C12_EstadoInvalidoRechazado ==
  [][\A id \in Ids, c \in CuerposPATCH :
       (estadoInvalido(c) /\ id \in DOMAIN tabla /\ PATCH(id, c, 0)) =>
         (ultima'.status = 400 /\ tabla' = tabla)]_vars

camposProtegidos == {"id", "fechaIngreso", "numeroCaso"}

\* C13: an edit whose body names id, fechaIngreso or numeroCaso ends in an
\* error response, whatever else the body carries.
C13_EdicionDeProtegidosRechazada ==
  [][\A id \in Ids, c \in CuerposPATCH, f \in Fallas :
       (DOMAIN c \cap camposProtegidos # {} /\ id \in DOMAIN tabla
          /\ PATCH(id, c, f)) =>
         ultima'.status >= 400]_vars

\* C14: in every reachable state the id, fechaIngreso and numeroCaso of a
\* stored case are those of the record its creation returned, whatever PATCH
\* edits and status changes it has gone through.
C14_CamposProtegidosInmutables ==
  /\ \A id \in DOMAIN tabla : tabla[id].id = id
  /\ \A p \in Procs :
       (resp[p].status = 201 /\ resp[p].fila.id \in DOMAIN tabla) =>
         LET creada == resp[p].fila
             actual == tabla[creada.id]
         IN /\ actual.id = creada.id
            /\ actual.fechaIngreso = creada.fechaIngreso
            /\ actual.numeroCaso = creada.numeroCaso

C14_Testigo ==
  /\ resp[1].status = 201
  /\ resp[1].fila.id \in DOMAIN tabla
  /\ tabla[resp[1].fila.id].estado = "resuelto"
  /\ tabla[resp[1].fila.id].cliente = <<"k">>
  /\ tabla[resp[1].fila.id].numeroCaso = resp[1].fila.numeroCaso

\* C15: in every reachable state each stored case has non-empty referencia,
\* cliente, nitCC and telefono.
C15_ObligatoriosNoVacios ==
  \A id \in DOMAIN tabla :
    \A c \in camposObligatorios : tabla[id][c] # Vacio

(* ---------------------------------------------------------------------- *)
(* Deletion (spec 4.1)                                                    *)
(* ---------------------------------------------------------------------- *)
\* C16: deleting an id that no case has is answered 404 (eliminarImpresora
\* returns false), so a second delete of the same id is, and 200 is answered
\* only when a record was removed.
C16_EliminarAusenteEsFalso ==
  [][\A id \in Ids, f \in BOOLEAN :
       DELETE(id, f) =>
         /\ id \notin DOMAIN tabla => ultima'.status = 404
         /\ ultima'.status = 200 => (id \in DOMAIN tabla /\ id \notin DOMAIN tabla')]_vars

(* ---------------------------------------------------------------------- *)
(* Documents (spec 4.4)                                                   *)
(* ---------------------------------------------------------------------- *)
\* C17: a successful change to 'resuelto' makes the delivery certificate from
\* the record the update returned, on the dropdown path as on the close-case
\* modal; a change to 'pendiente' makes none (the dropdown sends no request
\* for 'en_proceso').
C17_CertificadoEnCadaResuelto ==
  [][\A id \in Ids, e \in EstadoCaso, f \in Fallas, fl \in FallasLista :
       (id \in DOMAIN tabla /\ manejarCambiarEstado(id, e, f, fl)) =>
         documento' =
           IF e = "resuelto" /\ ultima'.status = 200
           THEN certificadoEntrega(tabla'[id])
           ELSE documento]_vars

\* C18: in the create flow the intake receipt is made only once the store has
\* created the case, and from the record the create returned; when the form's
\* validation or the store's insert fails, no receipt is made and no case is
\* added.
C18_ReciboSoloTrasCrear ==
  [][/\ documento' # documento =>
          /\ formulario.estado = "enviando"
          /\ resp[1].status = 201 /\ ~falloIns[1]
          /\ documento' = reciboRegistro(resp[1].fila)
     /\ \A c \in CamposFormulario, f \in BOOLEAN :
          (camposIncompletos(c) /\ manejarSubmit(c, f)) =>
            (tabla' = tabla /\ pc' = pc /\ documento' = documento)
     /\ \A p \in Procs :
          crearImpresora(p, TRUE) =>
            (tabla' = tabla /\ resp'[p].status = 500 /\ documento' = documento)
     /\ \A fl \in FallasLista :
          (resp[1].status # 201 /\ manejarSubmitRespuesta(fl)) =>
            (documento' = documento /\ tabla' = tabla)]_vars

C18_Testigo ==
  /\ documento.tipo = "registro"
  /\ documento.fila.id \in DOMAIN tabla
  /\ tabla[documento.fila.id] = documento.fila
  /\ documento.fila.numeroCaso = 2
  /\ formulario.estado = "reposo"

(* ---------------------------------------------------------------------- *)
(* Failures (spec 6, 7)                                                   *)
(* ---------------------------------------------------------------------- *)
\* C19: a backend failure while listing is reported to the caller as a
\* failure: the page that reloads its list during one is not handed the
\* successful empty list, so it does not replace the cases it shows by none.
C19_FallaDeListaNoEsListaVacia ==
  [][(tabla # <<>> /\ impresoras # <<>> /\ cargarImpresoras("bd")) =>
       /\ GETLista(tabla, TRUE) # GETLista(<<>>, FALSE)
       /\ impresoras' # <<>>]_vars

\* C20: the handlers answer 404 for an unknown id, 400 for a validation
\* failure and 500 for a backend failure: a PATCH of a stored case whose
\* lookup fails in the backend is not answered 404, and a PATCH of an unknown
\* id is not answered 500.
C20_CodigosDeEstado ==
  [][\A id \in Ids, c \in CuerposPATCH, f \in Fallas :
       PATCH(id, c, f) =>
         /\ (id \in DOMAIN tabla /\ f # 0) => ultima'.status # 404
         /\ id \notin DOMAIN tabla => ultima'.status # 500]_vars

(* ---------------------------------------------------------------------- *)
(* Delivery date, transitions, modals, failed lookups (spec 3, 4.2, 7)    *)
(* ---------------------------------------------------------------------- *)
\* C21: fechaEntrega is set only by a transition into 'resuelto': a created
\* case has none, no step changes it unless that step is a successful status
\* change to 'resuelto' (which stamps the time of the step), and no PATCH
\* other than a change to 'resuelto' (field edits, changes to 'pendiente' or
\* 'en_proceso', whatever the body names) changes it.
C21_FechaEntregaSoloAlResolver ==
  [][/\ \A id \in DOMAIN tabla' \ DOMAIN tabla : tabla'[id].fechaEntrega = Nulo
     /\ \A id \in DOMAIN tabla' \cap DOMAIN tabla :
          tabla'[id].fechaEntrega # tabla[id].fechaEntrega =>
            /\ tabla'[id].estado = "resuelto"
            /\ tabla'[id].fechaEntrega = reloj'
            /\ reloj' = reloj + 1
            /\ ultima' = [via |-> "api", id |-> id, status |-> 200]
     /\ \A id \in Ids, c \in CuerposPATCH, f \in Fallas :
          (id \in DOMAIN tabla /\ ~pideResuelto(c) /\ PATCH(id, c, f)) =>
            tabla'[id].fechaEntrega = tabla[id].fechaEntrega]_vars

\* A case edited and moved to 'en_proceso' that still has no fechaEntrega
C21_Testigo ==
  \E id \in DOMAIN tabla :
    /\ tabla[id].estado = "en_proceso"
    /\ tabla[id].fechaActualizacionEstado # Nulo
    /\ tabla[id].cliente = <<"k">>
    /\ tabla[id].fechaEntrega = Nulo

empiezaCon(s, pre) == Len(s) >= Len(pre) /\ SubSeq(s, 1, Len(pre)) = pre

C27_TransicionesPorPertenencia ==
  [][\A id \in Ids, c \in CuerposPATCH :
       (id \in DOMAIN tabla /\ esCambioDeEstado(c) /\ PATCH(id, c, 0)) =>
         /\ ultima'.status = 200
         /\ tabla'[id].estado = c.estado]_vars

\* A case that was resolved and has been moved back to 'pendiente'
C27_Testigo ==
  \E id \in DOMAIN tabla :
    tabla[id].estado = "pendiente" /\ tabla[id].fechaEntrega # Nulo

terminaCon(s, suf) ==
  Len(s) >= Len(suf) /\ SubSeq(s, Len(s) - Len(suf) + 1, Len(s)) = suf

\* C28: confirming a note modal with an empty or whitespace-only text sets
\* the modal's error, sends no request (the table and the record of the last
\* request stay as they were) and leaves the modal open; a confirm that does
\* send a request sends the trimmed, non-empty note; closing the en_proceso
\* modal leaves the table, and so the case's status, unchanged.
C28_ModalesSoloConNota ==
  [][/\ \A x \in TextosNota, fg \in BOOLEAN, f \in Fallas, fl \in FallasLista :
          (trim(x) = Vacio /\ ModalEnProcesoConfirmar(x, fg, f, fl)) =>
            /\ tabla' = tabla /\ ultima' = ultima /\ reloj' = reloj
            /\ impresoraEnProceso' = impresoraEnProceso
            /\ errorModal'.enProceso
     /\ \A x \in TextosNota, f \in Fallas, fl \in FallasLista :
          (trim(x) = Vacio /\ ModalCerrarCasoConfirmar(x, f, fl)) =>
            /\ tabla' = tabla /\ ultima' = ultima /\ reloj' = reloj
            /\ impresoraCerrarCaso' = impresoraCerrarCaso
            /\ documento' = documento
            /\ errorModal'.cerrarCaso
     /\ \A x \in TextosNota, fg \in BOOLEAN, fl \in FallasLista :
          (trim(x) # Vacio /\ impresoraEnProceso \in DOMAIN tabla
             /\ ModalEnProcesoConfirmar(x, fg, 0, fl)) =>
            terminaCon(tabla'[impresoraEnProceso].observaciones,
                       entradaEnProceso(reloj, trim(x)))
     /\ \A x \in TextosNota, fl \in FallasLista :
          (trim(x) # Vacio /\ impresoraCerrarCaso \in DOMAIN tabla
             /\ ModalCerrarCasoConfirmar(x, 0, fl)) =>
            tabla'[impresoraCerrarCaso].motivoResolucion = trim(x)
     /\ ModalEnProcesoCerrar => (tabla' = tabla /\ ultima' = ultima)]_vars

\* The en_proceso modal of a pending case showing its error
C28_Testigo ==
  /\ errorModal.enProceso
  /\ impresoraEnProceso \in DOMAIN tabla
  /\ tabla[impresoraEnProceso].estado = "pendiente"

C22_EntregaDentroDelMargen ==
  pdf.tipo = "entrega" =>
    \A i \in DOMAIN pdf.dibujos : pdf.dibujos[i].hasta <= pageHeight - margin

\* C23: an Intake Receipt has exactly one page and every wrapped line of the
\* notes is drawn, for every number of lines up to MaxLineas (notes of far
\* less than 2,000 characters).
C23_RegistroEnUnaPagina ==
  pdf.tipo = "registro" =>
    /\ pdf.paginas = 1
    /\ Len(SelectSeq(pdf.dibujos, LAMBDA x : x.el = "observacion"))
         = pdf.entradas.observaciones

sinLogo(dibujos) == SelectSeq(dibujos, LAMBDA x : x.el # "logo")

conLogoCargado(documentoPDF) ==
  IF documentoPDF.tipo = "registro"
  THEN generarPDFRegistro([documentoPDF.entradas EXCEPT !.logo = "ok"])
  ELSE generarPDFEntrega([documentoPDF.entradas EXCEPT !.logo = "ok"])

\* C24: whatever happens to the logo, both generators return the document:
\* no exception leaves them, the document ends with the contact footer, the
\* logo is drawn only when it loaded, and every other element is on the page
\* and at the height it has when the logo loads.
C24_LogoNoAborta ==
  pdf.tipo # "ninguno" =>
    /\ ~pdf.excepcion
    /\ pdf.dibujos # <<>> /\ pdf.dibujos[Len(pdf.dibujos)].el = "contacto"
    /\ (pdf.entradas.logo # "ok") = (sinLogo(pdf.dibujos) = pdf.dibujos)
    /\ sinLogo(pdf.dibujos) = sinLogo(conLogoCargado(pdf).dibujos)
    /\ pdf.paginas = conLogoCargado(pdf).paginas

\* A certificate of several pages generated although addImage rejected the
\* logo
C24_Testigo ==
  /\ pdf.tipo = "entrega"
  /\ pdf.entradas.logo = "incrustar"
  /\ pdf.paginas > 1
  /\ pdf.dibujos[Len(pdf.dibujos)].el = "contacto"

\* C26: every call of verificarYPaginar made while a document is laid out
\* starts a page and answers margin exactly when yPos + need is greater than
\* pageHeight - margin, and answers yPos without a new page otherwise; the
\* cursor it answers leaves room for the block (result + need <= pageHeight -
\* margin) whenever need <= pageHeight - 2 * margin.
C26_VerificarYPaginar ==
  pdf.tipo # "ninguno" =>
    \A c \in pdf.llamadas :
      /\ c.nueva = (c.yPos + c.espacio > pageHeight - margin)
      /\ c.resultado = (IF c.nueva THEN margin ELSE c.yPos)
      /\ (c.espacio <= pageHeight - 2 * margin) =>
           (c.resultado + c.espacio <= pageHeight - margin)

\* A layout with a call that started a page and a call whose block fitted
\* exactly
C26_Testigo ==
  /\ pdf.tipo # "ninguno"
  /\ \E c \in pdf.llamadas : c.nueva /\ c.resultado = margin
  /\ \E c \in pdf.llamadas :
       c.yPos + c.espacio = pageHeight - margin /\ ~c.nueva /\ c.resultado = c.yPos

====
